---- MODULE Spec2Model ----
\* The retry / performance-measurement / result-recording pipeline of
\* automation_tests/iot_testing.py (retry_on_failure, measure_performance,
\* IoTDashboardTester.run_all_tests) and the verdict rule of
\* automation_tests/iot_dashboard_tester.py.
\*
\* Times are in tenths of a second (10.0 s = 100).  None and 0.0 are both
\* falsy in the threshold tests of the source, so "no threshold" is 0.
\* StructuredLogger is taken on its own in SpecLogger, where its streams may
\* fail; in the other specifications the log sink is writable, every call
\* of log_structured returns, and structured_logs stands for the log.
EXTENDS Integers, Sequences, FiniteSets, TLC

VARIABLES pc, call, trace, structured_logs, sleeps, performance_data,
          detailed_results, results, driver, acquired, quits, reports,
          camera, pending, exit, variant, absorbed,
          func_result, record_calls, main_result,
          json_stream, log_file, log_calls, pdf_report, session_export,
          accessed_pages, find_calls

vars == <<pc, call, trace, structured_logs, sleeps, performance_data,
          detailed_results, results, driver, acquired, quits, reports,
          camera, pending, exit, variant, absorbed,
          func_result, record_calls, main_result,
          json_stream, log_file, log_calls, pdf_report, session_export,
          accessed_pages, find_calls>>

----------------------------------------------------------------------------
\* Bounds of the wrapper specification

MaxAttempts == 3

\* Calls of record_detailed_result in the recording specification
MaxRecords == 3

\* Calls of log_structured in the logger specification
MaxLogCalls == 3

\* Calls of safe_find_element in the element-lookup specification
MaxFinds == 2

\* Station pages accessed in the sensor-validation specification
MaxPages == 2

\* Durations a measured invocation may take: under, between and over the
\* page-load thresholds, and exactly on them.
Durations == {50, 70, 85, 100, 120}

\* Durations drawn inside a whole run.
RunDurations == {50}

----------------------------------------------------------------------------
\* Program constants

PAGE_LOAD_MAX == 100
PAGE_LOAD_WARNING == 70
ACTION_RESPONSE_MAX == 50
NAVIGATION_MAX == 300
SENSOR_VALIDATION_MAX == 600
VISUAL_VALIDATION_MAX == 900
DOWNLOAD_TEST_MAX == 450

INIT_MAX_ATTEMPTS == 3
INIT_DELAY == 20
OPEN_MAX_ATTEMPTS == 2
OPEN_DELAY == 15
FIND_MAX_ATTEMPTS == 2
FIND_DELAY == 10
DEFAULT_DELAY == 20

----------------------------------------------------------------------------
\* Exceptions.  An exception object is [cls, at]: its class and the index in
\* trace of the invocation that raised it (its identity).

NoExc == [cls |-> "none", at |-> 0]

\* The classes an `except` clause naming c catches are those with c among
\* their bases (Python's isinstance test).
Bases(cls) ==
    CASE cls = "KeyboardInterrupt" -> {"KeyboardInterrupt", "BaseException"}
      [] cls = "ValueError" -> {"ValueError", "Exception", "BaseException"}
      [] cls = "WebDriverException" ->
            {"WebDriverException", "Exception", "BaseException"}
      [] cls = "TimeoutException" ->
            {"TimeoutException", "WebDriverException", "Exception",
             "BaseException"}
      [] cls = "NoSuchElementException" ->
            {"NoSuchElementException", "WebDriverException", "Exception",
             "BaseException"}
      [] cls = "StaleElementReferenceException" ->
            {"StaleElementReferenceException", "WebDriverException",
             "Exception", "BaseException"}
      [] OTHER -> {}

Catches(handler, cls) == Bases(cls) \cap handler # {}

IsException(cls) == Catches({"Exception"}, cls)

\* str(e): the text of an exception, here determined by its class.
Str(e) == "msg:" \o e.cls

\* The exception tuples the decorators are applied with.
InitOpenExceptions == {"WebDriverException", "TimeoutException"}
FindExceptions == {"NoSuchElementException", "StaleElementReferenceException"}
DefaultExceptions == {"Exception"}

----------------------------------------------------------------------------
\* Log records

LogRec(level, src, msg) == [level |-> level, src |-> src, msg |-> msg]

\* An entry of trace: one invocation of func, and the class it raised
\* ("none" when it returned).  trace is the history of the invocations made,
\* in the order they were started.
Inv(func, cls) == [func |-> func, cls |-> cls]

----------------------------------------------------------------------------
\* Outcomes of one invocation of a wrapped function body.
\*   kind     "return" or "raise"
\*   cls      the class raised ("none" on return)
\*   value    the value returned
\*   acquires whether self.driver was assigned during the invocation

Ret(v, acq) == [kind |-> "return", cls |-> "none", value |-> v, acquires |-> acq]
Raise(c, acq) == [kind |-> "raise", cls |-> c, value |-> FALSE, acquires |-> acq]

\* What WebDriverWait(...).until(...) may do inside safe_find_element: hand
\* back the element or raise.
LookupOutcomes ==
    {Ret(TRUE, FALSE)}
    \cup {Raise(c, FALSE) : c \in {"TimeoutException", "NoSuchElementException",
                                    "StaleElementReferenceException",
                                    "WebDriverException", "KeyboardInterrupt"}}

\* Only the timeout turned into None; any other error left to propagate.
SafeFindBodyReraises(lookup) ==
    IF lookup.kind = "return"
    THEN [kind |-> "return", cls |-> "none", value |-> TRUE, acquires |-> FALSE,
          logs |-> <<>>]
    ELSE IF Catches({"TimeoutException"}, lookup.cls)
    THEN [kind |-> "return", cls |-> "none", value |-> FALSE, acquires |-> FALSE,
          logs |-> <<[level |-> "WARNING", src |-> "safe_find_element",
                      msg |-> "not found"]>>]
    ELSE [kind |-> "raise", cls |-> lookup.cls, value |-> FALSE, acquires |-> FALSE,
          logs |-> <<>>]

\* The body of safe_find_element: the element (value TRUE), or None (value
\* FALSE) after `except TimeoutException` or `except Exception`, each with
\* the record it logs; a BaseException passes both clauses.
SafeFindBody(lookup) ==
    IF lookup.kind = "return"
    THEN [kind |-> "return", cls |-> "none", value |-> TRUE, acquires |-> FALSE,
          logs |-> <<>>]
    ELSE IF Catches({"TimeoutException"}, lookup.cls)
    THEN [kind |-> "return", cls |-> "none", value |-> FALSE, acquires |-> FALSE,
          logs |-> <<[level |-> "WARNING", src |-> "safe_find_element",
                      msg |-> "not found"]>>]
    ELSE IF Catches({"Exception"}, lookup.cls)
    THEN [kind |-> "return", cls |-> "none", value |-> FALSE, acquires |-> FALSE,
          logs |-> <<[level |-> "ERROR", src |-> "safe_find_element",
                      msg |-> "error"]>>]
    ELSE [kind |-> "raise", cls |-> lookup.cls, value |-> FALSE, acquires |-> FALSE,
          logs |-> <<>>]

\* initialize_webdriver returns True after assigning self.driver, or raises
\* from ChromeDriverManager().install() / webdriver.Chrome(...) before the
\* assignment; a keyboard interrupt may arrive on either side of it.
\* open_dashboard returns True or raises from driver.get / wait.until.
\* "op" is an arbitrary wrapped operation.
Outcomes(func) ==
    CASE func = "initialize_webdriver" ->
            {Ret(TRUE, TRUE), Raise("WebDriverException", FALSE),
             Raise("ValueError", FALSE), Raise("KeyboardInterrupt", FALSE),
             Raise("KeyboardInterrupt", TRUE)}
      [] func = "open_dashboard" ->
            {Ret(TRUE, FALSE), Raise("TimeoutException", FALSE),
             Raise("ValueError", FALSE), Raise("KeyboardInterrupt", FALSE)}
      [] func = "safe_find_element" ->
            {SafeFindBody(lookup) : lookup \in LookupOutcomes}
      [] OTHER ->
            {Ret(TRUE, FALSE), Ret(FALSE, FALSE)} \cup
            {Raise(c, FALSE) : c \in {"TimeoutException", "NoSuchElementException",
                                      "ValueError", "KeyboardInterrupt"}}

----------------------------------------------------------------------------
\* measure_performance.wrapper

\* `>=` in place of `>` in both threshold tests.
PerfStatusInclusive(threshold, warning_threshold, duration) ==
    IF threshold # 0 /\ duration >= threshold THEN "FAIL"
    ELSE IF warning_threshold # 0 /\ duration >= warning_threshold THEN "WARNING"
    ELSE "PASS"

\* The classification written to the log record of a measurement.
PerfStatus(threshold, warning_threshold, duration) ==
    IF threshold # 0 /\ duration > threshold THEN "FAIL"
    ELSE IF warning_threshold # 0 /\ duration > warning_threshold THEN "WARNING"
    ELSE "PASS"

\* error_msg: set by `except Exception as e`, which a BaseException such as
\* KeyboardInterrupt passes by.
ErrorMsg(o, e) ==
    IF o.kind = "raise" /\ Catches({"Exception"}, o.cls) THEN Str(e) ELSE "None"

\* success assigned before the call instead of after it.
MeasuredSampleSuccessFirst(func, threshold, o, e, duration) ==
    [function |-> func,
     duration |-> duration,
     success |-> TRUE,
     threshold_met |-> ~(threshold # 0 /\ duration > threshold),
     error |-> ErrorMsg(o, e)]

\* The dict appended to self.performance_data in the finally block.
MeasuredSample(func, threshold, o, e, duration) ==
    [function |-> func,
     duration |-> duration,
     success |-> (o.kind = "return"),
     threshold_met |-> ~(threshold # 0 /\ duration > threshold),
     error |-> ErrorMsg(o, e)]

\* The records the finally block logs: a WARNING when a threshold is
\* exceeded, then the INFO record of the measurement.
MeasuredLogs(threshold, warning_threshold, duration) ==
    LET status == PerfStatus(threshold, warning_threshold, duration)
    IN  (IF status = "PASS" THEN <<>>
         ELSE <<LogRec("WARNING", "measure_performance", status)>>)
        \o <<LogRec("INFO", "measure_performance", status)>>

\* The body's Exception caught and `result` (still None) returned.
MeasuredOutcomeSwallows(o, e) ==
    IF o.kind = "raise" /\ IsException(o.cls)
    THEN [out |-> Ret(FALSE, o.acquires), exc |-> NoExc]
    ELSE [out |-> o, exc |-> e]

\* What the wrapper hands to its caller when the body ended with outcome o,
\* e being the exception object the body raised: `return result` after the
\* finally block, or the same exception object, re-raised by the bare
\* `raise` (an Exception) or never caught at all (a BaseException).
MeasuredOutcome(o, e) ==
    IF o.kind = "return"
    THEN [out |-> Ret(o.value, o.acquires), exc |-> NoExc]
    ELSE [out |-> Raise(o.cls, o.acquires), exc |-> e]

----------------------------------------------------------------------------
\* retry_on_failure.wrapper

\* `for attempt in range(1, max_attempts + 1)`
LoopRange(c) == 1 .. c.max_attempts

\* `if attempt < max_attempts`
AttemptsRemain(c) == c.attempt < c.max_attempts

\* `except Exception` in place of `except exceptions`.
RetryableAnyException(c, o) == o.kind = "raise" /\ Catches({"Exception"}, o.cls)

\* `except exceptions as e`
Retryable(c, o) == o.kind = "raise" /\ Catches(c.exceptions, o.cls)

\* Every failed attempt logged as an ERROR.
RetryLogsAsErrors(c, o) ==
    IF Retryable(c, o)
    THEN <<LogRec("ERROR", "retry_on_failure", "attempt failed")>>
         \o (IF AttemptsRemain(c) THEN <<>>
             ELSE <<LogRec("ERROR", "retry_on_failure", "all attempts failed")>>)
    ELSE <<>>

\* The last failure raised without its ERROR record.
RetryLogsNoExhaustionError(c, o) ==
    IF Retryable(c, o)
    THEN <<LogRec("WARNING", "retry_on_failure", "attempt failed")>>
    ELSE <<>>

\* The last failure logged as an ERROR only, without its WARNING.
RetryLogsWarnBeforeSleep(c, o) ==
    IF Retryable(c, o)
    THEN IF AttemptsRemain(c)
         THEN <<LogRec("WARNING", "retry_on_failure", "attempt failed")>>
         ELSE <<LogRec("ERROR", "retry_on_failure", "all attempts failed")>>
    ELSE <<>>

\* The records the except clause logs for one failed invocation.
RetryLogs(c, o) ==
    IF Retryable(c, o)
    THEN <<LogRec("WARNING", "retry_on_failure", "attempt failed")>>
         \o (IF AttemptsRemain(c) THEN <<>>
             ELSE <<LogRec("ERROR", "retry_on_failure", "all attempts failed")>>)
    ELSE <<>>

\* `time.sleep(delay)`: the same wait after every failed attempt.
RetrySleepsConstant(c, o) ==
    IF Retryable(c, o) /\ AttemptsRemain(c) THEN <<c.delay>> ELSE <<>>

\* `time.sleep(delay * attempt)`
RetrySleeps(c, o) ==
    IF Retryable(c, o) /\ AttemptsRemain(c) THEN <<c.delay * c.attempt>> ELSE <<>>

\* max_attempts read as the number of retries after the first invocation.
RetryCallAsRetries(c, o, e) ==
    IF o.kind = "return"
    THEN [c EXCEPT !.status = "returned", !.result = o.value]
    ELSE IF Retryable(c, o)
    THEN IF c.attempt <= c.max_attempts
         THEN [c EXCEPT !.attempt = c.attempt + 1, !.last_exception = e]
         ELSE [c EXCEPT !.status = "raised", !.raised = e, !.last_exception = e]
    ELSE [c EXCEPT !.status = "raised", !.raised = e]

\* The first failure kept and raised at exhaustion instead of the last.
RetryCallKeepsFirst(c, o, e) ==
    LET kept == IF c.last_exception = NoExc THEN e ELSE c.last_exception
    IN  IF o.kind = "return"
        THEN [c EXCEPT !.status = "returned", !.result = o.value]
        ELSE IF Retryable(c, o)
        THEN IF AttemptsRemain(c)
             THEN [c EXCEPT !.attempt = c.attempt + 1, !.last_exception = kept]
             ELSE [c EXCEPT !.status = "raised", !.raised = kept,
                            !.last_exception = kept]
        ELSE [c EXCEPT !.status = "raised", !.raised = e]

\* One iteration of the loop: the state of the wrapper call after the
\* invocation with outcome o, whose exception object (if any) is e.
RetryCall(c, o, e) ==
    IF o.kind = "return"
    THEN [c EXCEPT !.status = "returned", !.result = o.value]
    ELSE IF Retryable(c, o)
    THEN IF AttemptsRemain(c)
         THEN IF c.attempt + 1 \in LoopRange(c)
              THEN [c EXCEPT !.attempt = c.attempt + 1, !.last_exception = e]
              ELSE [c EXCEPT !.status = "raised", !.raised = e,
                             !.last_exception = e]
         ELSE [c EXCEPT !.status = "raised", !.raised = e, !.last_exception = e]
    ELSE [c EXCEPT !.status = "raised", !.raised = e]

\* A wrapper call about to make its first invocation.
NewCall(func, max_attempts, delay, exceptions, timed, threshold, warning_threshold) ==
    [func |-> func, max_attempts |-> max_attempts, delay |-> delay,
     exceptions |-> exceptions, timed |-> timed, threshold |-> threshold,
     warning_threshold |-> warning_threshold,
     attempt |-> 1, status |-> "running", result |-> FALSE,
     raised |-> NoExc, last_exception |-> NoExc]

NoCall == [NewCall("none", 1, 0, {}, FALSE, 0, 0) EXCEPT !.status = "idle"]

----------------------------------------------------------------------------
\* Screenshots and StepResults

\* take_screenshot: the path stored and the record logged.
TakeScreenshot(cam) ==
    IF cam = "ok"
    THEN [path |-> "screenshot", logs |-> <<LogRec("INFO", "take_screenshot", "saved")>>]
    ELSE [path |-> "None", logs |-> <<LogRec("WARNING", "take_screenshot", "failed")>>]

\* take_screenshot_on_error: nothing without a driver.
TakeScreenshotOnError(drv, cam) ==
    IF drv # "open"
    THEN [path |-> "None", logs |-> <<>>]
    ELSE IF cam = "ok"
    THEN [path |-> "error_screenshot",
          logs |-> <<LogRec("ERROR", "take_screenshot_on_error", "captured")>>]
    ELSE [path |-> "None",
          logs |-> <<LogRec("WARNING", "take_screenshot_on_error", "failed")>>]

\* The capture record_detailed_result makes for one result.
Capture(success, take_ss, drv, cam) ==
    IF success /\ take_ss /\ drv = "open" THEN TakeScreenshot(cam)
    ELSE IF ~success /\ drv = "open" THEN TakeScreenshotOnError(drv, cam)
    ELSE [path |-> "None", logs |-> <<>>]

\* A failed capture recorded as a failed step.
ResultEntryNeedsCapture(test_name, success, take_ss, drv, cam) ==
    LET captured == Capture(success, take_ss, drv, cam).path # "None"
    IN  [test_name |-> test_name,
         status |-> IF success /\ captured THEN "BERHASIL" ELSE "GAGAL",
         success |-> success /\ captured,
         screenshot |-> Capture(success, take_ss, drv, cam).path]

\* The entry record_detailed_result appends.
ResultEntry(test_name, success, take_ss, drv, cam) ==
    [test_name |-> test_name,
     status |-> IF success THEN "BERHASIL" ELSE "GAGAL",
     success |-> success,
     screenshot |-> Capture(success, take_ss, drv, cam).path]

\* One entry kept per test name: a later result replaces the earlier one.
RecordReplaceByName(rs, entry) ==
    IF \E i \in 1 .. Len(rs) : rs[i].test_name = entry.test_name
    THEN [i \in 1 .. Len(rs) |->
            IF rs[i].test_name = entry.test_name THEN entry ELSE rs[i]]
    ELSE Append(rs, entry)

\* `self.detailed_results.append(result_entry)`
RecordAppend(rs, entry) == Append(rs, entry)

\* The records record_detailed_result logs.
ResultLogs(test_name, success, take_ss, drv, cam) ==
    Capture(success, take_ss, drv, cam).logs
    \o <<LogRec("INFO", "record_detailed_result", test_name)>>

\* A sequence of record_detailed_result calls, rs[i] = <<test_name, success>>.
RECURSIVE ResultEntries(_, _, _)
ResultEntries(rs, drv, cam) ==
    IF rs = <<>> THEN <<>>
    ELSE <<ResultEntry(Head(rs)[1], Head(rs)[2], TRUE, drv, cam)>>
         \o ResultEntries(Tail(rs), drv, cam)

RECURSIVE ResultsLogs(_, _, _)
ResultsLogs(rs, drv, cam) ==
    IF rs = <<>> THEN <<>>
    ELSE ResultLogs(Head(rs)[1], Head(rs)[2], TRUE, drv, cam)
         \o ResultsLogs(Tail(rs), drv, cam)

----------------------------------------------------------------------------
\* The validation steps.  Each catches every Exception inside its own body,
\* records a failure result and returns False, so the call returns a bool
\* unless a keyboard interrupt arrives.  A step outcome is
\*   [ret, interrupted, recs, nested, pages]
\* recs the <<test_name, success>> pairs it records, in order, nested the
\* functions measured inside it, in order of completion, and pages what
\* extract_sensor_data found on each station page accessed.

StepOut(ret, recs, nested) ==
    [ret |-> ret, interrupted |-> FALSE, recs |-> recs, nested |-> nested,
     pages |-> <<>>]

Interrupted(recs, nested) ==
    [ret |-> FALSE, interrupted |-> TRUE, recs |-> recs, nested |-> nested,
     pages |-> <<>>]

\* sensor_mapping, in insertion order
SensorMapping ==
    << <<"Timestamp", "Validasi Timestamp">>,
       <<"Temperature", "Validasi Sht85Temp">>,
       <<"Humidity", "Validasi Humidity">>,
       <<"Wind Direction", "Validasi Arah Angin">>,
       <<"Wind Speed", "Validasi Kecepatan Angin">>,
       <<"Rain Gauge", "Validasi Rain Gauge">>,
       <<"Pyrano", "Validasi Pyrano">>,
       <<"Air Pressure", "Validasi Tekanan Udara">>,
       <<"Watertemp", "Validasi Suhu Air">> >>

\* The keys of mock_data
MockKeys ==
    {"Temperature", "Humidity", "Wind Speed", "Air Pressure", "Wind Direction",
     "Rain Gauge", "Pyrano", "Watertemp", "Timestamp"}

\* Key sets extract_sensor_data may find on one page.
PageKeySets ==
    { {},
      {"Temperature", "Humidity", "Pressure"},
      {"Timestamp", "Temperature", "Humidity", "Wind Speed", "Pressure", "Pyrano"},
      {"Timestamp", "Temperature", "Humidity", "Wind Speed", "Rain Gauge", "Pyrano"},
      MockKeys }

\* all_sensor_data after one page: the page data, plus the mock data when
\* the page yields fewer than three sensors.
AllSensorData(page_data) ==
    IF Cardinality(page_data) < 3 THEN page_data \cup MockKeys ELSE page_data

SensorRecs(data) ==
    [i \in 1 .. Len(SensorMapping) |->
        <<SensorMapping[i][2], SensorMapping[i][1] \in data>>]

SuccessCount(recs) == Cardinality({i \in 1 .. Len(recs) : recs[i][2]})

\* Half of the sensors taken as enough.
SensorsCompleteHalf(success_count, total_sensors) ==
    success_count * 10 >= total_sensors * 5

\* `success_count >= (total_sensors * 0.6)`
SensorsComplete(success_count, total_sensors) ==
    success_count * 10 >= total_sensors * 6

\* all_sensor_data after the loop over the accessed pages: dict.update
\* keeps every key seen so far.
MergeSensorData(pages) ==
    UNION {AllSensorData(pages[i]) : i \in 1 .. Len(pages)}

\* validate_sensor_data_completeness when nothing raises, pages[i] being
\* the data of the i-th accessed page: without a page, the failed
\* navigation result and False; otherwise the navigation result, one
\* result per entry of sensor_mapping, and the 60% test.
SensorStep(pages) ==
    IF pages = <<>>
    THEN StepOut(FALSE, << <<"Navigasi Halaman Stasiun", FALSE>> >>,
                 <<"navigate_to_station_pages">>)
    ELSE [StepOut(SensorsComplete(SuccessCount(SensorRecs(MergeSensorData(pages))),
                                  Len(SensorMapping)),
                  << <<"Navigasi Halaman Stasiun", TRUE>> >>
                     \o SensorRecs(MergeSensorData(pages)),
                  <<"navigate_to_station_pages">>
                     \o [i \in 1 .. Len(pages) |-> "extract_sensor_data"])
          EXCEPT !.pages = pages]

\* validate_sensor_data_completeness inside a whole run, with one station
\* page at most; an exception after the navigation ends in the except
\* clause of the step.
SensorOutcomes ==
    {SensorStep(<<>>)}
    \cup
    {StepOut(FALSE, << <<"Navigasi Halaman Stasiun", TRUE>>,
                       <<"Validasi Sensor Keseluruhan", FALSE>> >>,
             <<"navigate_to_station_pages">>)}
    \cup
    {SensorStep(<<pd>>) : pd \in PageKeySets}
    \cup
    {Interrupted(<<>>, <<>>)}

\* validate_visual_elements: one result, SUCCESS iff a chart was found on
\* some station page; an exception on a station page skips that page, one
\* outside the station loop ends in the outer except clause.
VisualOutcomes ==
    {StepOut(found, << <<"Deteksi Chart Dashboard", found>> >>, <<>>)
        : found \in BOOLEAN}
    \cup {StepOut(FALSE, << <<"Validasi Elemen Visual", FALSE>> >>, <<>>)}
    \cup {Interrupted(<<>>, <<>>)}

\* test_download_feature: three results; the modal and the notification
\* are looked for only after a download control was found.
DownloadOutcomes ==
    {StepOut(f[1], << <<"Tombol Download", f[1]>>, <<"Modal Password", f[2]>>,
                      <<"Notifikasi", f[3]>> >>, <<>>)
        : f \in {g \in [1 .. 3 -> BOOLEAN] : (g[2] \/ g[3]) => g[1]}}
    \cup {StepOut(FALSE, << <<"Pengujian Download", FALSE>> >>, <<>>)}
    \cup {Interrupted(<<>>, <<>>)}

----------------------------------------------------------------------------
\* The results mapping of run_all_tests.  A key not in the dict is "absent".

StepKeys ==
    <<"webdriver_init", "dashboard_open", "sensor_validation",
      "visual_elements", "download_feature">>

DashboardKeys ==
    <<"webdriver_init", "dashboard_open", "main_page_verify",
      "data_visualization", "time_filters", "download_feature">>

AllKeys ==
    {StepKeys[i] : i \in 1 .. Len(StepKeys)}
    \cup {DashboardKeys[i] : i \in 1 .. Len(DashboardKeys)}
    \cup {"overall_success"}

Bool(b) == IF b THEN "True" ELSE "False"

\* The two prerequisites left out of the count of successful steps.
SuccessfulValidationsOnly(res) ==
    Cardinality({k \in {"sensor_validation", "visual_elements", "download_feature"} :
                    res[k] = "True"})

\* `sum(1 for result in results.values() if result)` and `len(results)`,
\* both taken before overall_success is stored (iot_testing.py); the
\* dashboard tester leaves overall_success out of both.
Successful(res) == Cardinality({k \in AllKeys \ {"overall_success"} : res[k] = "True"})
Total(res) == Cardinality({k \in AllKeys \ {"overall_success"} : res[k] # "absent"})

\* `>` in place of `>=`.
OverallSuccessStrict(successful_tests, total_tests) ==
    successful_tests * 10 > total_tests * 6

\* `successful_tests >= (total_tests * 0.6)`
OverallSuccess(successful_tests, total_tests) ==
    successful_tests * 10 >= total_tests * 6

\* `successful_tests >= (total_tests * 0.7)` of iot_dashboard_tester.py
DashboardOverallSuccess(successful_tests, total_tests) ==
    successful_tests * 10 >= total_tests * 7

\* `results.get("overall_success", False)`: the verdict as callers read it.
Verdict(res) == res["overall_success"] = "True"

\* The early return left out.
NeverAborts(ok) == FALSE

\* `if not results[...]: return results`
AbortsAfter(ok) == ~ok

----------------------------------------------------------------------------
\* main: what the entry point hands to `exit(...)`.

NoMain == [kind |-> "running", code |-> 0, cls |-> "none"]

MainReturns(code) == [kind |-> "return", code |-> code, cls |-> "none"]

MainRaises(cls) == [kind |-> "raise", code |-> 0, cls |-> cls]

\* main of iot_testing.py wraps the run in try / except KeyboardInterrupt /
\* except Exception; main of iot_dashboard_tester.py has no handler.  ended
\* is how run_all_tests ended, cls the class it let through.
MainResult(v, ended, cls, res) ==
    IF ended = "returned"
    THEN MainReturns(IF Verdict(res) THEN 0 ELSE 1)
    ELSE IF v = "iot_testing"
    THEN MainReturns(IF ended = "interrupted" THEN 130 ELSE 1)
    ELSE MainRaises(cls)

----------------------------------------------------------------------------
\* The report document and the session export.

NoReport == [written |-> FALSE, rows |-> <<>>]

\* One row of the table 'HASIL PENGUJIAN DETAIL': name, status and the
\* screenshot column of a StepResult.
PdfRow(r) ==
    [test_name |-> r.test_name,
     status |-> r.status,
     screenshot |-> IF r.screenshot # "None" THEN "Ada" ELSE "Tidak"]

\* The rows rendered with the report step's own result already recorded.
PdfReportAfterRecord(rs, ok) ==
    IF ok
    THEN [written |-> TRUE,
          rows |-> [i \in 1 .. Len(rs) + 1 |->
                      IF i <= Len(rs) THEN PdfRow(rs[i])
                      ELSE [test_name |-> "Pembuatan Laporan PDF",
                            status |-> "BERHASIL", screenshot |-> "Tidak"]]]
    ELSE NoReport

\* generate_pdf_report: one row per entry of self.detailed_results as it
\* stands when the table is rendered; nothing is written when rendering
\* raised before pdf.output.
PdfReport(rs, ok) ==
    IF ok THEN [written |-> TRUE, rows |-> [i \in 1 .. Len(rs) |-> PdfRow(rs[i])]]
    ELSE NoReport

NoExport ==
    [written |-> FALSE, keys |-> {}, test_results |-> <<>>,
     performance_data |-> <<>>, logs |-> <<>>]

\* The keys of log_data
ExportKeys == {"test_session", "test_results", "performance_data", "logs"}

\* save_structured_logs: json.dump(log_data) writes the four keys of
\* log_data; nothing parsable is left when open() or json.dump raised.
SessionExport(rs, perf, logs, ok) ==
    IF ok
    THEN [written |-> TRUE, keys |-> ExportKeys, test_results |-> rs,
          performance_data |-> perf, logs |-> logs]
    ELSE NoExport

\* json.load of the export: the StepResults under "test_results" and the
\* value under "overall_success" ("absent" when the document has no such
\* key).
ParseExport(doc) ==
    [step_results |-> IF "test_results" \in doc.keys THEN Len(doc.test_results) ELSE 0,
     overall_verdict |-> IF "overall_success" \in doc.keys
                         THEN doc.overall_success ELSE "absent"]

----------------------------------------------------------------------------
\* Initial states

InitCommon ==
    /\ trace = <<>>
    /\ structured_logs = <<>>
    /\ sleeps = <<>>
    /\ performance_data = <<>>
    /\ detailed_results = <<>>
    /\ driver = "none"
    /\ acquired = 0
    /\ quits = 0
    /\ reports = 0
    /\ pending = "none"
    /\ exit = "running"
    /\ absorbed = {}
    /\ func_result = "None"
    /\ record_calls = <<>>
    /\ main_result = NoMain
    /\ json_stream = <<>>
    /\ log_file = <<>>
    /\ log_calls = <<>>
    /\ pdf_report = NoReport
    /\ session_export = NoExport
    /\ accessed_pages = <<>>
    /\ find_calls = <<>>

\* IoTDashboardTester of either file, constructed and about to run.
Init ==
    /\ InitCommon
    /\ pc = "start"
    /\ call = NoCall
    /\ camera \in {"ok", "broken"}
    /\ variant \in {"iot_testing", "iot_dashboard_tester"}
    /\ results = [k \in AllKeys |->
                    IF variant = "iot_dashboard_tester"
                       /\ (k = "overall_success"
                           \/ \E i \in 1 .. Len(DashboardKeys) : DashboardKeys[i] = k)
                    THEN "False" ELSE "absent"]

\* The thresholds measure_performance is applied with.
ThresholdPolicies ==
    { <<PAGE_LOAD_MAX, PAGE_LOAD_WARNING>>, <<ACTION_RESPONSE_MAX, 0>>, <<0, 0>> }

\* The retryable sets retry_on_failure is applied with, each with a delay
\* it is applied with.
RetryPolicies ==
    { <<InitOpenExceptions, INIT_DELAY>>, <<FindExceptions, FIND_DELAY>>,
      <<DefaultExceptions, DEFAULT_DELAY>> }

\* One call of an operation wrapped by retry_on_failure, alone or around
\* measure_performance.
InitWrapper ==
    /\ InitCommon
    /\ pc = "wrapper"
    /\ variant = "iot_testing"
    /\ camera = "ok"
    /\ results = [k \in AllKeys |-> "absent"]
    /\ \E n \in 1 .. MaxAttempts, rp \in RetryPolicies,
          timed \in BOOLEAN, th \in ThresholdPolicies :
            /\ (~timed => th = <<0, 0>>)
            /\ call = NewCall("op", n, rp[2], rp[1], timed, th[1], th[2])

----------------------------------------------------------------------------
\* One iteration of the retry loop: the wrapped function is invoked once.

DurationsNow == IF pc \in {"wrapper", "find"} THEN Durations ELSE RunDurations

\* The records the body of the wrapped function logs.
BodyLogs(func, o, drv, cam) ==
    IF func = "initialize_webdriver" \/ func = "open_dashboard"
    THEN <<LogRec("INFO", func, "begin")>>
         \o (IF o.kind = "return" THEN <<LogRec("INFO", func, "ok")>>
             ELSE IF IsException(o.cls)
             THEN <<LogRec("ERROR", func, "failed")>>
                  \o TakeScreenshotOnError(drv, cam).logs
             ELSE <<>>)
    ELSE IF func = "safe_find_element" THEN o.logs
    ELSE <<>>

\* The sample kept once for a whole wrapper call, as with the timer applied
\* outside the retry wrapper.
RecordSampleOncePerCall(data, c, o, e, d) ==
    IF c.timed /\ RetryCall(c, o, e).status # "running"
    THEN Append(data, MeasuredSample(c.func, c.threshold, o, e, d))
    ELSE data

\* performance_data after one invocation: measure_performance sits inside
\* retry_on_failure, so its finally block runs on every attempt.
RecordSample(data, c, o, e, d) ==
    IF c.timed
    THEN Append(data, MeasuredSample(c.func, c.threshold, o, e, d))
    ELSE data

Invoke(o, d) ==
    LET e == [cls |-> o.cls, at |-> Len(trace) + 1]
        m == IF call.timed THEN MeasuredOutcome(o, e) ELSE [out |-> o, exc |-> e]
        drv == IF o.acquires THEN "open" ELSE driver
    IN  /\ trace' = Append(trace, Inv(call.func, o.cls))
        /\ driver' = drv
        /\ acquired' = IF o.acquires THEN acquired + 1 ELSE acquired
        /\ func_result' = IF o.kind = "return" THEN Bool(o.value) ELSE func_result
        /\ performance_data' = RecordSample(performance_data, call, o, e, d)
        /\ structured_logs' =
              structured_logs
              \o BodyLogs(call.func, o, driver, camera)
              \o (IF call.timed
                  THEN MeasuredLogs(call.threshold, call.warning_threshold, d)
                  ELSE <<>>)
              \o RetryLogs(call, m.out)
        /\ sleeps' = sleeps \o RetrySleeps(call, m.out)
        /\ call' = RetryCall(call, m.out, m.exc)
        /\ UNCHANGED <<json_stream, log_file, log_calls, pdf_report, session_export,
                   accessed_pages, find_calls, record_calls, main_result, pc, detailed_results, results, quits, reports, camera,
                       pending, exit, variant, absorbed>>

InvokeReturns ==
    /\ call.status = "running"
    /\ \E o \in Outcomes(call.func), d \in DurationsNow :
          o.kind = "return" /\ Invoke(o, d)

InvokeRetryable ==
    /\ call.status = "running"
    /\ \E o \in Outcomes(call.func), d \in DurationsNow :
          Retryable(call, o) /\ Invoke(o, d)

InvokeNonRetryable ==
    /\ call.status = "running"
    /\ \E o \in Outcomes(call.func), d \in DurationsNow :
          /\ o.kind = "raise" /\ ~Retryable(call, o) /\ IsException(o.cls)
          /\ Invoke(o, d)

InvokeInterrupted ==
    /\ call.status = "running"
    /\ \E o \in Outcomes(call.func), d \in DurationsNow :
          /\ o.kind = "raise" /\ ~Retryable(call, o) /\ ~IsException(o.cls)
          /\ Invoke(o, d)

NextWrapper ==
    InvokeReturns \/ InvokeRetryable \/ InvokeNonRetryable \/ InvokeInterrupted

SpecWrapper == InitWrapper /\ [][NextWrapper]_vars

----------------------------------------------------------------------------
\* record_detailed_result called on its own, with or without a driver; the
\* capture of each call may fail independently of the others.

RecordNames == {"Tombol Download", "Notifikasi"}

InitRecord ==
    /\ pc = "record"
    /\ variant = "iot_testing"
    /\ call = NoCall
    /\ trace = <<>>
    /\ structured_logs = <<>>
    /\ sleeps = <<>>
    /\ performance_data = <<>>
    /\ detailed_results = <<>>
    /\ results = [k \in AllKeys |-> "absent"]
    /\ driver \in {"none", "open"}
    /\ camera = "ok"
    /\ acquired = 0
    /\ quits = 0
    /\ reports = 0
    /\ pending = "none"
    /\ exit = "running"
    /\ absorbed = {}
    /\ func_result = "None"
    /\ record_calls = <<>>
    /\ main_result = NoMain
    /\ json_stream = <<>>
    /\ log_file = <<>>
    /\ log_calls = <<>>
    /\ pdf_report = NoReport
    /\ session_export = NoExport
    /\ accessed_pages = <<>>
    /\ find_calls = <<>>

RecordResult ==
    /\ pc = "record" /\ Len(record_calls) < MaxRecords
    /\ \E test_name \in RecordNames, success \in BOOLEAN, take_ss \in BOOLEAN,
          cam \in {"ok", "broken"} :
        /\ camera' = cam
        /\ detailed_results' =
              RecordAppend(detailed_results,
                           ResultEntry(test_name, success, take_ss, driver, cam))
        /\ structured_logs' =
              structured_logs \o ResultLogs(test_name, success, take_ss, driver, cam)
        /\ record_calls' = Append(record_calls, <<test_name, success, take_ss>>)
    /\ UNCHANGED <<json_stream, log_file, log_calls, pdf_report, session_export,
                   accessed_pages, find_calls, func_result, main_result, pc, call, trace, sleeps,
                   performance_data, results, driver, acquired, quits, reports,
                   pending, exit, variant, absorbed>>

NextRecord == RecordResult

SpecRecord == InitRecord /\ [][NextRecord]_vars

----------------------------------------------------------------------------
\* StructuredLogger.  The logger has three handlers: the text file (DEBUG
\* and up, '%(asctime)s - %(levelname)s - %(message)s'), json_handler (INFO
\* and up, no formatter set, so the bare message) and the console.
\* log_structured hands the message to the logger and then writes the JSON
\* entry straight to json_handler.stream.

Levels == {"DEBUG", "INFO", "WARNING", "ERROR"}

\* logging's numeric levels
LevelNo(level) ==
    CASE level = "DEBUG" -> 10
      [] level = "INFO" -> 20
      [] level = "WARNING" -> 30
      [] OTHER -> 40

FILE_HANDLER_LEVEL == 10
JSON_HANDLER_LEVEL == 20

\* A line of a stream: a JSON object written by json.dumps, or text written
\* by a handler's formatter (shown is the level the formatter prints, "-"
\* when the format has no %(levelname)s).
JsonLine(rec) == [kind |-> "json", level |-> rec.level, message |-> rec.msg]
TextLine(shown, message) == [kind |-> "text", level |-> shown, message |-> message]

\* json.loads of one line: the object, or "invalid" for a line that is not
\* JSON.  The messages logged are prose, never JSON literals.
ParseLine(line) ==
    IF line.kind = "json"
    THEN [level |-> line.level, src |-> "log_structured", msg |-> line.message]
    ELSE [level |-> "invalid", src |-> "invalid", msg |-> "invalid"]

\* Handler.handle / emit: a record under the handler's level is dropped; an
\* error raised by the stream is handed to handleError and never reaches
\* the caller.
HandlerEmit(handler_level, level, writable, line) ==
    IF LevelNo(level) >= handler_level /\ writable THEN <<line>> ELSE <<>>

\* How a call ends: the write at the end of log_structured is not guarded.
LogOutcome(json) == IF json = "ok" THEN "returned" ELSE "raised"

InitLogger ==
    /\ InitCommon
    /\ pc = "logger"
    /\ call = NoCall
    /\ variant = "iot_testing"
    /\ camera = "ok"
    /\ results = [k \in AllKeys |-> "absent"]

\* One call of log_structured.  text and json are the states of the two
\* file streams during the call: "ok", "fails" (every write raises) or, for
\* the JSON stream, "fills" (the handler's write gets through and the
\* direct write raises).
LogStructured ==
    /\ pc = "logger" /\ Len(log_calls) < MaxLogCalls
    /\ \E level \in Levels, text \in {"ok", "fails"}, json \in {"ok", "fails", "fills"} :
        LET log_entry == LogRec(level, "log_structured", "message")
        IN  /\ structured_logs' = Append(structured_logs, log_entry)
            /\ log_file' =
                  log_file \o HandlerEmit(FILE_HANDLER_LEVEL, level, text = "ok",
                                          TextLine(level, log_entry.msg))
            /\ json_stream' =
                  json_stream
                  \o HandlerEmit(JSON_HANDLER_LEVEL, level, json # "fails",
                                 TextLine("-", log_entry.msg))
                  \o (IF json = "ok" THEN <<JsonLine(log_entry)>> ELSE <<>>)
            /\ log_calls' =
                  Append(log_calls, [level |-> level, outcome |-> LogOutcome(json)])
    /\ UNCHANGED <<pdf_report, session_export, accessed_pages, find_calls,
                   func_result, record_calls, main_result, pc, call, trace,
                   sleeps, performance_data, detailed_results, results, driver,
                   acquired, quits, reports, camera, pending, exit, variant,
                   absorbed>>

NextLogger == LogStructured

SpecLogger == InitLogger /\ [][NextLogger]_vars

----------------------------------------------------------------------------
\* safe_find_element called on its own, one call after another:
\* retry_on_failure(2, 1.0, (NoSuchElementException,
\* StaleElementReferenceException)) around measure_performance.

Locators == {"canvas", "button"}

InitFind ==
    /\ pc = "find"
    /\ variant = "iot_testing"
    /\ call = NoCall
    /\ trace = <<>>
    /\ structured_logs = <<>>
    /\ sleeps = <<>>
    /\ performance_data = <<>>
    /\ detailed_results = <<>>
    /\ results = [k \in AllKeys |-> "absent"]
    /\ driver = "open"
    /\ camera = "ok"
    /\ acquired = 1
    /\ quits = 0
    /\ reports = 0
    /\ pending = "none"
    /\ exit = "running"
    /\ absorbed = {}
    /\ func_result = "None"
    /\ record_calls = <<>>
    /\ main_result = NoMain
    /\ json_stream = <<>>
    /\ log_file = <<>>
    /\ log_calls = <<>>
    /\ pdf_report = NoReport
    /\ session_export = NoExport
    /\ accessed_pages = <<>>
    /\ find_calls = <<>>

\* A caller calls safe_find_element(by, value).
FindStart ==
    /\ pc = "find" /\ call.status \in {"idle", "returned"}
    /\ Len(find_calls) < MaxFinds
    /\ \E locator \in Locators : find_calls' = Append(find_calls, locator)
    /\ call' = NewCall("safe_find_element", FIND_MAX_ATTEMPTS, FIND_DELAY,
                       FindExceptions, TRUE, ACTION_RESPONSE_MAX, 0)
    /\ UNCHANGED <<json_stream, log_file, log_calls, pdf_report, session_export,
                   accessed_pages, func_result, record_calls, main_result, pc,
                   trace, structured_logs, sleeps, performance_data,
                   detailed_results, results, driver, acquired, quits, reports,
                   camera, pending, exit, variant, absorbed>>

\* One iteration of the retry loop around safe_find_element.
FindInvoke ==
    /\ pc = "find" /\ call.status = "running"
    /\ \E o \in Outcomes(call.func), d \in DurationsNow : Invoke(o, d)

NextFind == FindStart \/ FindInvoke

SpecFind == InitFind /\ [][NextFind]_vars

----------------------------------------------------------------------------
\* run_all_tests of iot_testing.py

RunStart ==
    /\ pc = "start" /\ variant = "iot_testing"
    /\ pc' = "init"
    /\ call' = NewCall("initialize_webdriver", INIT_MAX_ATTEMPTS, INIT_DELAY,
                       InitOpenExceptions, TRUE, PAGE_LOAD_MAX, PAGE_LOAD_WARNING)
    /\ structured_logs' = structured_logs
          \o <<LogRec("INFO", "run_all_tests", "start"),
               LogRec("INFO", "run_all_tests", "test 1")>>
    /\ UNCHANGED <<json_stream, log_file, log_calls, pdf_report, session_export,
                   accessed_pages, find_calls, func_result, record_calls, main_result, trace, sleeps, performance_data, detailed_results, results,
                   driver, acquired, quits, reports, camera, pending, exit,
                   variant, absorbed>>

PrereqKey(p) == IF p = "init" THEN "webdriver_init" ELSE "dashboard_open"
PrereqName(p) == IF p = "init" THEN "Inisialisasi WebDriver" ELSE "Pemuatan Dashboard"

\* What follows a prerequisite step whose outcome is ok: the next wrapped
\* call, or the early return through the finally block.
AfterPrereq(p, ok, logs) ==
    IF AbortsAfter(ok)
    THEN /\ pc' = "cleanup"
         /\ pending' = "return"
         /\ call' = NoCall
         /\ structured_logs' = logs \o <<LogRec("ERROR", "run_all_tests", "cannot proceed")>>
    ELSE /\ pending' = pending
         /\ IF p = "init"
            THEN /\ pc' = "open"
                 /\ call' = NewCall("open_dashboard", OPEN_MAX_ATTEMPTS, OPEN_DELAY,
                                    InitOpenExceptions, TRUE, PAGE_LOAD_MAX,
                                    PAGE_LOAD_WARNING)
                 /\ structured_logs' = logs \o <<LogRec("INFO", "run_all_tests", "test 2")>>
            ELSE /\ pc' = "sensor"
                 /\ call' = NoCall
                 /\ structured_logs' = logs \o <<LogRec("INFO", "run_all_tests", "test 3")>>

\* The wrapped call returned: its value is stored and recorded.
PrereqReturned ==
    /\ pc \in {"init", "open"} /\ call.status = "returned"
    /\ results' = [results EXCEPT ![PrereqKey(pc)] = Bool(call.result)]
    /\ detailed_results' =
          RecordAppend(detailed_results,
                 ResultEntry(PrereqName(pc), call.result, TRUE, driver, camera))
    /\ record_calls' = Append(record_calls, <<PrereqName(pc), call.result, TRUE>>)
    /\ AfterPrereq(pc, call.result,
                   structured_logs
                   \o ResultLogs(PrereqName(pc), call.result, TRUE, driver, camera))
    /\ UNCHANGED <<json_stream, log_file, log_calls, pdf_report, session_export,
                   accessed_pages, find_calls, func_result, main_result, trace, sleeps, performance_data, driver, acquired, quits,
                   reports, camera, exit, variant, absorbed>>

\* The wrapped call raised an Exception: `except Exception as e` stores
\* False and records the failure.
PrereqRaised ==
    /\ pc \in {"init", "open"} /\ call.status = "raised"
    /\ IsException(call.raised.cls)
    /\ results' = [results EXCEPT ![PrereqKey(pc)] = "False"]
    /\ detailed_results' =
          RecordAppend(detailed_results,
                 ResultEntry(PrereqName(pc), FALSE, TRUE, driver, camera))
    /\ record_calls' = Append(record_calls, <<PrereqName(pc), FALSE, TRUE>>)
    /\ absorbed' = absorbed \cup {call.func}
    /\ AfterPrereq(pc, FALSE,
                   structured_logs
                   \o <<LogRec("ERROR", "run_all_tests", "step failed")>>
                   \o ResultLogs(PrereqName(pc), FALSE, TRUE, driver, camera))
    /\ UNCHANGED <<json_stream, log_file, log_calls, pdf_report, session_export,
                   accessed_pages, find_calls, func_result, main_result, trace, sleeps, performance_data, driver, acquired, quits,
                   reports, camera, exit, variant>>

\* A keyboard interrupt passes every `except Exception` and leaves through
\* the finally block.
PrereqInterrupted ==
    /\ pc \in {"init", "open"} /\ call.status = "raised"
    /\ ~IsException(call.raised.cls)
    /\ pc' = "cleanup"
    /\ pending' = "interrupt"
    /\ call' = NoCall
    /\ UNCHANGED <<json_stream, log_file, log_calls, pdf_report, session_export,
                   accessed_pages, find_calls, func_result, record_calls, main_result, trace, structured_logs, sleeps, performance_data,
                   detailed_results, results, driver, acquired, quits, reports,
                   camera, exit, variant, absorbed>>

\* The three validation steps, each under measure_performance only.
ValidationFunc(p) ==
    CASE p = "sensor" -> "validate_sensor_data_completeness"
      [] p = "visual" -> "validate_visual_elements"
      [] OTHER -> "test_download_feature"

ValidationKey(p) ==
    CASE p = "sensor" -> "sensor_validation"
      [] p = "visual" -> "visual_elements"
      [] OTHER -> "download_feature"

ValidationThreshold(p) ==
    CASE p = "sensor" -> SENSOR_VALIDATION_MAX
      [] p = "visual" -> VISUAL_VALIDATION_MAX
      [] OTHER -> DOWNLOAD_TEST_MAX

ValidationOutcomes(p) ==
    CASE p = "sensor" -> SensorOutcomes
      [] p = "visual" -> VisualOutcomes
      [] OTHER -> DownloadOutcomes

NestedThreshold(func) ==
    IF func = "navigate_to_station_pages" THEN NAVIGATION_MAX ELSE ACTION_RESPONSE_MAX

\* A failed validation step ends the run, as a failed prerequisite does.
NextValidationAbortsOnFailure(p, ok) ==
    IF ~ok THEN "cleanup"
    ELSE CASE p = "sensor" -> "visual"
           [] p = "visual" -> "download"
           [] OTHER -> "report"

\* The download test called before the visual validation.
NextValidationSwapped(p, ok) ==
    CASE p = "sensor" -> "download"
      [] p = "download" -> "visual"
      [] OTHER -> "report"

\* The visual validation run a second time.
NextValidationRepeatsVisual(p, ok) ==
    CASE p = "sensor" -> "visual"
      [] p = "visual" ->
            IF \E i \in 1 .. Len(trace) : trace[i].func = "validate_visual_elements"
            THEN "download" ELSE "visual"
      [] OTHER -> "report"

\* The step after a validation step with outcome ok.
NextValidation(p, ok) ==
    CASE p = "sensor" -> "visual"
      [] p = "visual" -> "download"
      [] OTHER -> "report"

\* The name a validation step records its own exception under.
ValidationErrorName(p) ==
    CASE p = "sensor" -> "Validasi Sensor Keseluruhan"
      [] p = "visual" -> "Validasi Elemen Visual"
      [] OTHER -> "Pengujian Download"

\* The step body ended in its own `except Exception` clause.
BodyRaised(p, out) ==
    \E i \in 1 .. Len(out.recs) : out.recs[i][1] = ValidationErrorName(p)

\* The samples in the order the operations were entered.
StepSamplesInCallOrder(func, threshold, out, o, d) ==
    <<MeasuredSample(func, threshold, o, NoExc, d)>>
    \o [i \in 1 .. Len(out.nested) |->
          MeasuredSample(out.nested[i], NestedThreshold(out.nested[i]),
                         Ret(TRUE, FALSE), NoExc, d)]

\* The samples one step appends: each measured operation appends its
\* sample in its finally block, so those of the operations called inside
\* the step are there before the step's own.
StepSamples(func, threshold, out, o, d) ==
    [i \in 1 .. Len(out.nested) |->
          MeasuredSample(out.nested[i], NestedThreshold(out.nested[i]),
                         Ret(TRUE, FALSE), NoExc, d)]
    \o <<MeasuredSample(func, threshold, o, NoExc, d)>>

Validate ==
    /\ pc \in {"sensor", "visual", "download"}
    /\ \E out \in ValidationOutcomes(pc), d \in RunDurations :
        LET func == ValidationFunc(pc)
            o == IF out.interrupted THEN Raise("KeyboardInterrupt", FALSE)
                 ELSE Ret(out.ret, FALSE)
            nestedLogs == [i \in 1 .. Len(out.nested) |->
                             LogRec("INFO", "measure_performance", "PASS")]
            res == [results EXCEPT ![ValidationKey(pc)] = Bool(out.ret)]
        IN  /\ trace' = Append(trace, Inv(func, o.cls))
                         \o [i \in 1 .. Len(out.nested) |-> Inv(out.nested[i], "none")]
            /\ performance_data' =
                  performance_data
                  \o StepSamples(func, ValidationThreshold(pc), out, o, d)
            /\ accessed_pages' = IF pc = "sensor" THEN out.pages ELSE accessed_pages
            /\ detailed_results' =
                  detailed_results \o ResultEntries(out.recs, driver, camera)
            /\ record_calls' =
                  record_calls
                  \o [i \in 1 .. Len(out.recs) |->
                        <<out.recs[i][1], out.recs[i][2], TRUE>>]
            /\ func_result' = IF out.interrupted THEN func_result ELSE Bool(out.ret)
            /\ structured_logs' =
                  structured_logs \o nestedLogs
                  \o ResultsLogs(out.recs, driver, camera)
                  \o MeasuredLogs(ValidationThreshold(pc), 0, d)
                  \o (IF out.interrupted \/ pc # "download" THEN <<>>
                      ELSE <<LogRec("INFO", "run_all_tests", "report")>>)
            /\ absorbed' = IF BodyRaised(pc, out) THEN absorbed \cup {func} ELSE absorbed
            /\ IF out.interrupted
               THEN /\ pc' = "cleanup"
                    /\ pending' = "interrupt"
                    /\ results' = results
               ELSE /\ pc' = NextValidation(pc, out.ret)
                    /\ pending' = pending
                    /\ results' =
                          IF pc = "download"
                          THEN [res EXCEPT !["overall_success"] =
                                  Bool(OverallSuccess(Successful(res), Total(res)))]
                          ELSE res
    /\ UNCHANGED <<json_stream, log_file, log_calls, pdf_report, session_export,
                   find_calls, main_result, call, sleeps, driver, acquired, quits,
                   reports, camera, exit, variant>>

\* generate_pdf_report returns True, or False when rendering raised; its
\* result is recorded as the last StepResult.
Report ==
    /\ pc = "report"
    /\ \E ok \in BOOLEAN :
        /\ reports' = reports + 1
        /\ pdf_report' = PdfReport(detailed_results, ok)
        /\ trace' = Append(trace, Inv("generate_pdf_report", "none"))
        /\ detailed_results' =
              RecordAppend(detailed_results,
                     ResultEntry("Pembuatan Laporan PDF", ok, TRUE, driver, camera))
        /\ record_calls' = Append(record_calls, <<"Pembuatan Laporan PDF", ok, TRUE>>)
        /\ structured_logs' =
              structured_logs
              \o <<LogRec(IF ok THEN "INFO" ELSE "ERROR", "generate_pdf_report", "done")>>
              \o ResultLogs("Pembuatan Laporan PDF", ok, TRUE, driver, camera)
    /\ pc' = "save"
    /\ UNCHANGED <<json_stream, log_file, log_calls, session_export,
                   accessed_pages, find_calls, func_result, main_result, call, sleeps, performance_data, results, driver, acquired,
                   quits, camera, pending, exit, variant, absorbed>>

\* The keyboard interrupt arrives while the report is rendered.
ReportInterrupted ==
    /\ pc = "report"
    /\ reports' = reports + 1
    /\ trace' = Append(trace, Inv("generate_pdf_report", "KeyboardInterrupt"))
    /\ pc' = "cleanup"
    /\ pending' = "interrupt"
    /\ UNCHANGED <<json_stream, log_file, log_calls, pdf_report, session_export,
                   accessed_pages, find_calls, func_result, record_calls, main_result, call, structured_logs, sleeps, performance_data,
                   detailed_results, results, driver, acquired, quits, camera,
                   exit, variant, absorbed>>

\* save_structured_logs (a failure to write is logged as a WARNING), then
\* log_final_results; the try block ends.
SaveLogs ==
    /\ pc = "save"
    /\ \E ok \in BOOLEAN :
        /\ session_export' =
              SessionExport(detailed_results, performance_data, structured_logs, ok)
        /\ structured_logs' =
              structured_logs
              \o <<LogRec(IF ok THEN "INFO" ELSE "WARNING", "save_structured_logs", "done")>>
              \o <<LogRec("INFO", "log_final_results", Bool(Verdict(results)))>>
    /\ trace' = Append(trace, Inv("save_structured_logs", "none"))
    /\ pc' = "cleanup"
    /\ pending' = "return"
    /\ UNCHANGED <<json_stream, log_file, log_calls, pdf_report,
                   accessed_pages, find_calls, func_result, record_calls, main_result, call, sleeps, performance_data, detailed_results, results,
                   driver, acquired, quits, reports, camera, exit, variant,
                   absorbed>>

----------------------------------------------------------------------------
\* validate_sensor_data_completeness called on its own, on a tester whose
\* driver is open; accessed_pages holds, for each station page that
\* navigate_to_station_pages will find accessible, the sensors that
\* extract_sensor_data will find on it.

StationPageData ==
    PageKeySets
    \cup {{"Timestamp", "Temperature", "Humidity", "Wind Direction", "Air Pressure"}}

InitSensor ==
    /\ pc = "sensor_call"
    /\ variant = "iot_testing"
    /\ call = NoCall
    /\ trace = <<>>
    /\ structured_logs = <<>>
    /\ sleeps = <<>>
    /\ performance_data = <<>>
    /\ detailed_results = <<>>
    /\ results = [k \in AllKeys |-> "absent"]
    /\ driver = "open"
    /\ camera \in {"ok", "broken"}
    /\ acquired = 1
    /\ quits = 0
    /\ reports = 0
    /\ pending = "none"
    /\ exit = "running"
    /\ absorbed = {}
    /\ func_result = "None"
    /\ record_calls = <<>>
    /\ main_result = NoMain
    /\ json_stream = <<>>
    /\ log_file = <<>>
    /\ log_calls = <<>>
    /\ pdf_report = NoReport
    /\ session_export = NoExport
    /\ find_calls = <<>>
    /\ accessed_pages \in UNION {[1 .. n -> StationPageData] : n \in 0 .. MaxPages}

\* The call, from entry to `return`, no exception occurring.
SensorValidate ==
    /\ pc = "sensor_call"
    /\ \E d \in RunDurations :
        LET func == "validate_sensor_data_completeness"
            out == SensorStep(accessed_pages)
            o == Ret(out.ret, FALSE)
        IN  /\ trace' = Append(trace, Inv(func, "none"))
                         \o [i \in 1 .. Len(out.nested) |-> Inv(out.nested[i], "none")]
            /\ performance_data' =
                  performance_data
                  \o StepSamples(func, SENSOR_VALIDATION_MAX, out, o, d)
            /\ detailed_results' =
                  detailed_results \o ResultEntries(out.recs, driver, camera)
            /\ record_calls' =
                  record_calls
                  \o [i \in 1 .. Len(out.recs) |->
                        <<out.recs[i][1], out.recs[i][2], TRUE>>]
            /\ func_result' = Bool(out.ret)
            /\ structured_logs' =
                  structured_logs
                  \o [i \in 1 .. Len(out.nested) |->
                        LogRec("INFO", "measure_performance", "PASS")]
                  \o ResultsLogs(out.recs, driver, camera)
                  \o MeasuredLogs(SENSOR_VALIDATION_MAX, 0, d)
    /\ pc' = "sensor_done"
    /\ UNCHANGED <<json_stream, log_file, log_calls, pdf_report, session_export,
                   accessed_pages, find_calls, main_result, call, sleeps, results,
                   driver, acquired, quits, reports, camera, pending, exit,
                   variant, absorbed>>

NextSensor == SensorValidate

SpecSensor == InitSensor /\ [][NextSensor]_vars

----------------------------------------------------------------------------
\* cleanup, called from the finally block of run_all_tests (both files)

\* quit() attempted whether or not a driver is held.
HoldsDriverAlways(drv) == TRUE

\* `if self.driver:`
HoldsDriver(drv) == drv = "open"

\* `except TimeoutException` in place of `except Exception` around quit().
CleanupCatchesTimeoutOnly(cls) == Catches({"TimeoutException"}, cls)

\* `except Exception as e` around self.driver.quit()
CleanupCatches(cls) == Catches({"Exception"}, cls)

\* How run_all_tests ends once the finally block is through, quit() having
\* raised cls ("none": it returned, or was not called).
ExitAfter(cls, pend) ==
    IF cls = "none" \/ CleanupCatches(cls)
    THEN IF pend = "interrupt" THEN "interrupted" ELSE "returned"
    ELSE IF IsException(cls) THEN "raised" ELSE "interrupted"

CleanupQuit ==
    /\ pc = "cleanup" /\ HoldsDriver(driver)
    /\ \E cls \in {"none", "WebDriverException", "KeyboardInterrupt"} :
        /\ exit' = ExitAfter(cls, pending)
        /\ driver' = IF cls = "none" THEN "quit" ELSE "broken"
        /\ trace' = Append(trace, Inv("quit", cls))
        /\ structured_logs' =
              IF variant # "iot_testing" \/ ~(cls = "none" \/ CleanupCatches(cls))
              THEN structured_logs
              ELSE Append(structured_logs,
                          LogRec(IF cls = "none" THEN "INFO" ELSE "WARNING",
                                 "cleanup", cls))
    /\ quits' = quits + 1
    /\ pc' = "done"
    /\ UNCHANGED <<json_stream, log_file, log_calls, pdf_report, session_export,
                   accessed_pages, find_calls, func_result, record_calls, main_result, call, sleeps, performance_data, detailed_results, results,
                   acquired, reports, camera, pending, variant, absorbed>>

CleanupNoDriver ==
    /\ pc = "cleanup" /\ ~HoldsDriver(driver)
    /\ exit' = ExitAfter("none", pending)
    /\ pc' = "done"
    /\ UNCHANGED <<json_stream, log_file, log_calls, pdf_report, session_export,
                   accessed_pages, find_calls, func_result, record_calls, main_result, call, trace, structured_logs, sleeps, performance_data,
                   detailed_results, results, driver, acquired, quits, reports,
                   camera, pending, variant, absorbed>>

----------------------------------------------------------------------------
\* run_all_tests of iot_dashboard_tester.py: every key starts False, the
\* steps return bools, and no StepResult or sample is kept.

DashStart ==
    /\ pc = "start" /\ variant = "iot_dashboard_tester"
    /\ pc' = "d_init"
    /\ UNCHANGED <<json_stream, log_file, log_calls, pdf_report, session_export,
                   accessed_pages, find_calls, func_result, record_calls, main_result, call, trace, structured_logs, sleeps, performance_data,
                   detailed_results, results, driver, acquired, quits, reports,
                   camera, pending, exit, variant, absorbed>>

DashFunc(p) ==
    CASE p = "d_init" -> "initialize_webdriver"
      [] p = "d_open" -> "open_dashboard"
      [] p = "d_main" -> "verify_main_page"
      [] p = "d_visual" -> "validate_data_visualization"
      [] p = "d_filters" -> "test_time_filters"
      [] OTHER -> "test_download_feature"

DashKey(p) ==
    CASE p = "d_init" -> "webdriver_init"
      [] p = "d_open" -> "dashboard_open"
      [] p = "d_main" -> "main_page_verify"
      [] p = "d_visual" -> "data_visualization"
      [] p = "d_filters" -> "time_filters"
      [] OTHER -> "download_feature"

DashNext(p) ==
    CASE p = "d_init" -> "d_open"
      [] p = "d_open" -> "d_main"
      [] p = "d_main" -> "d_visual"
      [] p = "d_visual" -> "d_filters"
      [] p = "d_filters" -> "d_download"
      [] OTHER -> "cleanup"

\* `if not self.initialize_webdriver(): return results` and the same for
\* open_dashboard; both catch every Exception and return False.
DashPrereq ==
    /\ pc \in {"d_init", "d_open"}
    /\ \E ok \in BOOLEAN :
        /\ driver' = IF pc = "d_init" /\ ok THEN "open" ELSE driver
        /\ acquired' = IF pc = "d_init" /\ ok THEN acquired + 1 ELSE acquired
        /\ results' = IF ok THEN [results EXCEPT ![DashKey(pc)] = "True"] ELSE results
        /\ pc' = IF AbortsAfter(ok) THEN "cleanup" ELSE DashNext(pc)
    /\ trace' = Append(trace, Inv(DashFunc(pc), "none"))
    /\ pending' = "return"
    /\ UNCHANGED <<json_stream, log_file, log_calls, pdf_report, session_export,
                   accessed_pages, find_calls, func_result, record_calls, main_result, call, structured_logs, sleeps, performance_data,
                   detailed_results, quits, reports, camera, exit, variant,
                   absorbed>>

\* A validation step returns a bool; after the last one the verdict is
\* computed over the six step outcomes.
DashValidate ==
    /\ pc \in {"d_main", "d_visual", "d_filters", "d_download"}
    /\ \E ok \in BOOLEAN :
        LET res == [results EXCEPT ![DashKey(pc)] = Bool(ok)]
        IN  results' =
              IF pc = "d_download"
              THEN [res EXCEPT !["overall_success"] =
                      Bool(DashboardOverallSuccess(Successful(res), Total(res)))]
              ELSE res
    /\ trace' = Append(trace, Inv(DashFunc(pc), "none"))
    /\ pc' = DashNext(pc)
    /\ UNCHANGED <<json_stream, log_file, log_calls, pdf_report, session_export,
                   accessed_pages, find_calls, func_result, record_calls, main_result, call, structured_logs, sleeps, performance_data,
                   detailed_results, driver, acquired, quits, reports, camera,
                   pending, exit, variant, absorbed>>

\* A validation step raises: an Exception other than TimeoutException is
\* caught by the outer `except Exception` of run_all_tests, a keyboard
\* interrupt by nothing; both leave through the finally block.
DashRaised ==
    /\ pc \in {"d_main", "d_visual", "d_filters", "d_download"}
    /\ \E cls \in {"WebDriverException", "KeyboardInterrupt"} :
        /\ pending' = IF IsException(cls) THEN "return" ELSE "interrupt"
        /\ absorbed' = IF IsException(cls) THEN absorbed \cup {DashFunc(pc)} ELSE absorbed
        /\ trace' = Append(trace, Inv(DashFunc(pc), cls))
    /\ pc' = "cleanup"
    /\ UNCHANGED <<json_stream, log_file, log_calls, pdf_report, session_export,
                   accessed_pages, find_calls, func_result, record_calls, main_result, call, structured_logs, sleeps, performance_data,
                   detailed_results, results, driver, acquired, quits, reports,
                   camera, exit, variant>>

----------------------------------------------------------------------------
\* main, once run_all_tests has ended

\* The class run_all_tests let through to main.
Escaped(ended) ==
    IF ended = "interrupted" THEN "KeyboardInterrupt"
    ELSE IF ended = "raised" THEN "WebDriverException"
    ELSE "none"

Main ==
    /\ pc = "done" /\ main_result = NoMain
    /\ main_result' = MainResult(variant, exit, Escaped(exit), results)
    /\ UNCHANGED <<json_stream, log_file, log_calls, pdf_report, session_export,
                   accessed_pages, find_calls, func_result, record_calls, pc, call, trace, structured_logs,
                   sleeps, performance_data, detailed_results, results, driver,
                   acquired, quits, reports, camera, pending, exit, variant,
                   absorbed>>

----------------------------------------------------------------------------

Next ==
    \/ RunStart
    \/ InvokeReturns
    \/ InvokeRetryable
    \/ InvokeNonRetryable
    \/ InvokeInterrupted
    \/ PrereqReturned
    \/ PrereqRaised
    \/ PrereqInterrupted
    \/ Validate
    \/ Report
    \/ ReportInterrupted
    \/ SaveLogs
    \/ CleanupQuit
    \/ CleanupNoDriver
    \/ DashStart
    \/ DashPrereq
    \/ DashValidate
    \/ DashRaised
    \/ Main

Spec == Init /\ [][Next]_vars

\* Every call made by the run comes back (returns or raises): a step that
\* can be taken is taken.
SpecLive == Init /\ [][Next]_vars /\ WF_vars(Next)

----------------------------------------------------------------------------
\* Properties of the wrappers (SpecWrapper)

\* Every invocation made so far raised an error of the retryable set.
AllRetryable ==
    \A i \in 1 .. Len(trace) : Catches(call.exceptions, trace[i].cls)

\* The call used up its attempts: max_attempts invocations, all of which
\* raised a retryable error.
Exhausted == Len(trace) = call.max_attempts /\ AllRetryable

RetryLogCount(logs, level) ==
    Cardinality({i \in 1 .. Len(logs) :
                    logs[i].src = "retry_on_failure" /\ logs[i].level = level})

\* C1: one call of the retry wrapper invokes the operation at most
\* max_attempts times, and exactly max_attempts times when every invocation
\* raises a retryable error.
C1_InvocationBound ==
    pc = "wrapper" =>
        /\ Len(trace) <= call.max_attempts
        /\ (call.status # "running" /\ AllRetryable)
              => Len(trace) = call.max_attempts

C1_Witness ==
    /\ pc = "wrapper" /\ call.status = "raised"
    /\ call.max_attempts = 3 /\ Len(trace) = 3 /\ AllRetryable

\* C5: each invocation of a measured operation appends exactly one sample
\* to performance_data and leaves the earlier samples alone, whether the
\* operation returns or raises a retryable or a non-retryable error; the
\* sample's success flag is true iff the operation returned and its error
\* text is set iff the operation raised an error.  (On a keyboard interrupt,
\* which is no Exception, one sample is appended as well, with success
\* false.)
C5_OneSamplePerInvocation ==
    [][(pc = "wrapper" /\ call.timed /\ Len(trace') = Len(trace) + 1) =>
         LET inv == trace'[Len(trace')]
             smp == performance_data'[Len(performance_data')]
         IN  /\ Len(performance_data') = Len(performance_data) + 1
             /\ SubSeq(performance_data', 1, Len(performance_data)) = performance_data
             /\ smp.function = inv.func
             /\ smp.success <=> (inv.cls = "none")
             /\ IsException(inv.cls) => smp.error # "None"
             /\ inv.cls = "none" => smp.error = "None"]_vars

C5_Witness ==
    /\ pc = "wrapper" /\ call.timed /\ Len(performance_data) = 3
    /\ ~performance_data[1].success /\ performance_data[1].error # "None"
    /\ ~performance_data[2].success
    /\ performance_data[3].success /\ performance_data[3].error = "None"
    /\ call.status = "returned"

C7_NonRetryablePropagates ==
    [][/\ (pc = "wrapper" /\ Len(trace') = Len(trace) + 1
           /\ trace'[Len(trace')].cls # "none"
           /\ ~Catches(call.exceptions, trace'[Len(trace')].cls))
          => /\ call'.status = "raised"
             /\ call'.raised = [cls |-> trace'[Len(trace')].cls, at |-> Len(trace')]
             /\ sleeps' = sleeps
             /\ RetryLogCount(structured_logs', "WARNING")
                  = RetryLogCount(structured_logs, "WARNING")
             /\ RetryLogCount(structured_logs', "ERROR")
                  = RetryLogCount(structured_logs, "ERROR")
       /\ (pc = "wrapper" /\ call.status # "running") => trace' = trace]_vars

C7_Witness ==
    /\ pc = "wrapper" /\ call.status = "raised"
    /\ IsException(call.raised.cls)
    /\ ~Catches(call.exceptions, call.raised.cls)
    /\ Len(trace) = 2 /\ call.max_attempts = 3
    /\ Len(sleeps) = 1
    /\ RetryLogCount(structured_logs, "WARNING") = 1
    /\ RetryLogCount(structured_logs, "ERROR") = 0

----------------------------------------------------------------------------
\* Properties of run_all_tests (Spec)

InvokedFuncs == {trace[i].func : i \in 1 .. Len(trace)}

IsValidationInv(inv) ==
    inv.func \in {"validate_sensor_data_completeness", "validate_visual_elements",
                  "test_download_feature"}

\* The validation steps invoked so far, in order of invocation.
ValidationOrder ==
    LET sel == SelectSeq(trace, IsValidationInv)
    IN  [i \in 1 .. Len(sel) |-> sel[i].func]

\* A keyboard interrupt arrived during the run.
UserInterrupt == \E i \in 1 .. Len(trace) : trace[i].cls = "KeyboardInterrupt"

TrueSteps(keys) == Cardinality({i \in 1 .. Len(keys) : results[keys[i]] = "True"})

HasFailure(test_name) ==
    \E i \in 1 .. Len(detailed_results) :
        /\ detailed_results[i].test_name = test_name
        /\ detailed_results[i].status = "GAGAL"

C3_ReportAlwaysGenerated ==
    (variant = "iot_testing" /\ pc = "done" /\ exit = "returned") => reports = 1

\* C4: on every exit path of run_all_tests the driver is released exactly
\* once if it was acquired and never if it was not; it is acquired at most
\* once, and never released before the run leaves through cleanup.
C4_DriverReleasedOnce ==
    /\ acquired <= 1
    /\ quits <= acquired
    /\ pc = "done" => quits = acquired
    /\ pc # "done" => quits = 0

C4_Witness ==
    /\ pc = "done" /\ exit = "interrupted" /\ variant = "iot_testing"
    /\ acquired = 1 /\ quits = 1
    /\ results["dashboard_open"] = "True"

\* C8: once page load has succeeded, the three validation steps are
\* attempted in the order sensor validation, visual elements, download
\* feature, whatever the earlier ones return (short of a keyboard
\* interrupt); an exception inside a validation step becomes a False
\* outcome and a FAILURE StepResult, and the run goes on.
C8_ValidationsIndependent ==
    variant = "iot_testing" =>
        /\ \E n \in 0 .. 3 :
              ValidationOrder =
                SubSeq(<<"validate_sensor_data_completeness",
                         "validate_visual_elements", "test_download_feature">>, 1, n)
        /\ (results["dashboard_open"] = "True" /\ ~UserInterrupt
            /\ pc \notin {"sensor", "visual", "download"}) =>
              /\ Len(ValidationOrder) = 3
              /\ \A k \in {"sensor_validation", "visual_elements", "download_feature"} :
                    results[k] \in {"True", "False"}
        /\ \A p \in {"sensor", "visual", "download"} :
              ValidationFunc(p) \in absorbed =>
                /\ results[ValidationKey(p)] = "False"
                /\ HasFailure(ValidationErrorName(p))
                /\ pc \in {"visual", "download", "report", "save", "cleanup", "done"}
                /\ (pc \in {"cleanup", "done"} /\ ~UserInterrupt)
                      => Len(ValidationOrder) = 3

C8_Witness ==
    /\ variant = "iot_testing" /\ pc = "done" /\ exit = "returned"
    /\ "validate_sensor_data_completeness" \in absorbed
    /\ "test_download_feature" \notin absorbed
    /\ results["sensor_validation"] = "False"
    /\ results["visual_elements"] = "True"
    /\ results["download_feature"] = "False"

\* The run went through every step (it was not aborted).
NotAborted ==
    IF variant = "iot_testing"
    THEN results["overall_success"] # "absent"
    ELSE \E i \in 1 .. Len(trace) : trace[i] = Inv("test_download_feature", "none")

\* C9: the verdict of a run that was not aborted is True iff the number of
\* True step outcomes over the number of step outcomes is at least the
\* threshold: 6/10 over five outcomes in iot_testing.py, 7/10 over six in
\* iot_dashboard_tester.py; 3 of 5 gives True.
C9_VerdictRatio ==
    NotAborted =>
        IF variant = "iot_testing"
        THEN /\ Verdict(results) <=> (TrueSteps(StepKeys) * 10 >= Len(StepKeys) * 6)
             /\ TrueSteps(StepKeys) = 3 => Verdict(results)
        ELSE Verdict(results) <=>
                (TrueSteps(DashboardKeys) * 10 >= Len(DashboardKeys) * 7)

C9_Witness ==
    /\ variant = "iot_testing" /\ pc = "done" /\ exit = "returned"
    /\ TrueSteps(StepKeys) = 3 /\ Len(StepKeys) = 5
    /\ Verdict(results)

\* C10: no Exception raised by a step, by report generation, by log saving
\* or by driver teardown leaves run_all_tests: the run returns its results
\* mapping unless a keyboard interrupt arrived, and a step that raised is
\* stored as False with a FAILURE StepResult.
C10_NoExceptionEscapes ==
    /\ exit # "raised"
    /\ pc = "done" => (exit = "returned" <=> ~UserInterrupt)
    /\ variant = "iot_testing" =>
          /\ "initialize_webdriver" \in absorbed =>
                results["webdriver_init"] = "False"
                /\ HasFailure("Inisialisasi WebDriver")
          /\ "open_dashboard" \in absorbed =>
                results["dashboard_open"] = "False"
                /\ HasFailure("Pemuatan Dashboard")
          /\ \A p \in {"sensor", "visual", "download"} :
                ValidationFunc(p) \in absorbed =>
                    results[ValidationKey(p)] = "False"
                    /\ HasFailure(ValidationErrorName(p))

C10_Witness ==
    /\ variant = "iot_testing" /\ pc = "done" /\ exit = "returned"
    /\ "validate_visual_elements" \in absorbed
    /\ \E i \in 1 .. Len(trace) : trace[i] = Inv("quit", "WebDriverException")
    /\ HasFailure("Pembuatan Laporan PDF")

----------------------------------------------------------------------------
\* Retries in the performance ledger (Spec)

IsPrereqInv(inv) == inv.func \in {"initialize_webdriver", "open_dashboard"}

IsPrereqSample(smp) == smp.function \in {"initialize_webdriver", "open_dashboard"}

\* C11: for the operations under both wrappers (initialize_webdriver,
\* open_dashboard) every attempt is measured as its own sample: the samples
\* of these operations are as many as their invocations and follow them in
\* attempt order, a failed attempt carrying success = false and the text of
\* its own error.
C11_RetriesMeasured ==
    variant = "iot_testing" =>
        LET invs == SelectSeq(trace, IsPrereqInv)
            smps == SelectSeq(performance_data, IsPrereqSample)
        IN  /\ Len(smps) = Len(invs)
            /\ \A i \in 1 .. Len(invs) :
                  /\ smps[i].function = invs[i].func
                  /\ smps[i].success <=> (invs[i].cls = "none")
                  /\ IsException(invs[i].cls) =>
                        smps[i].error = Str([cls |-> invs[i].cls, at |-> i])

C11_Witness ==
    /\ variant = "iot_testing" /\ pc = "sensor"
    /\ Len(SelectSeq(trace, IsPrereqInv)) = 5
    /\ Len(performance_data) = 5
    /\ ~performance_data[1].success /\ ~performance_data[2].success
    /\ performance_data[3].success
    /\ performance_data[3].function = "initialize_webdriver"
    /\ ~performance_data[4].success /\ performance_data[5].success
    /\ performance_data[5].function = "open_dashboard"

----------------------------------------------------------------------------
\* Backoff, pass-through and classification (SpecWrapper)

\* The invocations made so far that another attempt follows or will follow.
Waits == IF call.status = "running" THEN Len(trace) ELSE Len(trace) - 1

C13_TimerPassesThrough ==
    [][(pc = "wrapper" /\ call.timed /\ Len(trace') = Len(trace) + 1) =>
         LET inv == trace'[Len(trace')]
             e == [cls |-> inv.cls, at |-> Len(trace')]
         IN  /\ Len(performance_data') = Len(performance_data) + 1
             /\ inv.cls = "none" =>
                   /\ call'.status = "returned"
                   /\ Bool(call'.result) = func_result'
             /\ inv.cls # "none" =>
                   /\ call'.status # "returned"
                   /\ call'.status = "raised" => call'.raised = e
                   /\ call'.status = "running" => call'.last_exception = e]_vars

C13_Witness ==
    /\ pc = "wrapper" /\ call.timed /\ call.status = "raised"
    /\ call.raised = [cls |-> "ValueError", at |-> 2]
    /\ call.last_exception.at = 1
    /\ Len(performance_data) = 2
    /\ ~performance_data[2].success /\ performance_data[2].error = "msg:ValueError"

TimerLogCount(logs, level, msg) ==
    Cardinality({i \in 1 .. Len(logs) :
                    /\ logs[i].src = "measure_performance"
                    /\ logs[i].level = level
                    /\ logs[i].msg = msg})

\* C14: a measured duration d is classified FAIL when a hard threshold is
\* set and d > hard, otherwise WARNING when a warning threshold is set and
\* d > warning, otherwise PASS; with hard 10.0 and warning 7.0 a duration
\* of 8.5 is WARNING; a FAIL or WARNING classification logs one WARNING
\* record, a PASS none, and each measurement logs its INFO record with the
\* classification.
C14_Classification ==
    [][(pc = "wrapper" /\ call.timed /\ Len(trace') = Len(trace) + 1) =>
         LET d == performance_data'[Len(performance_data')].duration
             hard == call.threshold
             warn == call.warning_threshold
             class == IF hard # 0 /\ d > hard THEN "FAIL"
                      ELSE IF warn # 0 /\ d > warn THEN "WARNING"
                      ELSE "PASS"
             added(level, msg) == TimerLogCount(structured_logs', level, msg)
                                  - TimerLogCount(structured_logs, level, msg)
         IN  /\ \A c \in {"FAIL", "WARNING", "PASS"} :
                   /\ added("INFO", c) = IF c = class THEN 1 ELSE 0
                   /\ added("WARNING", c) = IF c = class /\ c # "PASS" THEN 1 ELSE 0
             /\ (hard = PAGE_LOAD_MAX /\ warn = PAGE_LOAD_WARNING /\ d = 85)
                   => class = "WARNING"]_vars

C14_Witness ==
    /\ pc = "wrapper" /\ call.timed
    /\ call.threshold = PAGE_LOAD_MAX /\ call.warning_threshold = PAGE_LOAD_WARNING
    /\ Len(performance_data) = 1 /\ performance_data[1].duration = 85
    /\ performance_data[1].threshold_met
    /\ TimerLogCount(structured_logs, "WARNING", "WARNING") = 1
    /\ TimerLogCount(structured_logs, "WARNING", "FAIL") = 0
    /\ TimerLogCount(structured_logs, "INFO", "WARNING") = 1

----------------------------------------------------------------------------
\* Properties of record_detailed_result (SpecRecord)

\* C15: every call of record_detailed_result appends exactly one StepResult,
\* carrying the name and the success flag it was called with, to the end of
\* detailed_results and leaves every earlier entry as it was, an entry of
\* the same name included.
C15_AppendOnly ==
    [][(pc = "record" /\ record_calls' # record_calls) =>
         LET args == record_calls'[Len(record_calls')]
             last == detailed_results'[Len(detailed_results')]
         IN  /\ Len(record_calls') = Len(record_calls) + 1
             /\ Len(detailed_results') = Len(detailed_results) + 1
             /\ detailed_results' = Append(detailed_results, last)
             /\ last.test_name = args[1]
             /\ last.success = args[2]
             /\ Len(detailed_results') = Len(record_calls')]_vars

C15_Witness ==
    /\ pc = "record" /\ Len(detailed_results) = 3
    /\ detailed_results[1].test_name = "Notifikasi" /\ ~detailed_results[1].success
    /\ detailed_results[2].test_name = "Tombol Download"
    /\ detailed_results[3].test_name = "Notifikasi" /\ detailed_results[3].success
    /\ record_calls[1][1] = "Notifikasi" /\ record_calls[3][1] = "Notifikasi"

\* The capture attempts logged so far by src: every attempt logs one record,
\* "saved" / "captured" when it worked and "failed" when it did not.
CaptureAttempts(logs, src) ==
    Cardinality({i \in 1 .. Len(logs) : logs[i].src = src})

\* C16: one call of record_detailed_result makes at most one capture
\* attempt: a confirmation capture iff success, capture requested and a
\* driver held, a diagnostic capture iff not success and a driver held,
\* never both.  A failing capture leaves the screenshot reference null and
\* nothing else: the status recorded always equals the success argument and
\* the StepResult is appended all the same.
C16_CaptureAtMostOnce ==
    [][(pc = "record" /\ record_calls' # record_calls) =>
         LET args == record_calls'[Len(record_calls')]
             last == detailed_results'[Len(detailed_results')]
             confirm == CaptureAttempts(structured_logs', "take_screenshot")
                        - CaptureAttempts(structured_logs, "take_screenshot")
             diagnose == CaptureAttempts(structured_logs', "take_screenshot_on_error")
                         - CaptureAttempts(structured_logs, "take_screenshot_on_error")
         IN  /\ confirm + diagnose <= 1
             /\ confirm = IF args[2] /\ args[3] /\ driver = "open" THEN 1 ELSE 0
             /\ diagnose = IF ~args[2] /\ driver = "open" THEN 1 ELSE 0
             /\ Len(detailed_results') = Len(detailed_results) + 1
             /\ last.success = args[2]
             /\ last.status = IF args[2] THEN "BERHASIL" ELSE "GAGAL"
             /\ (last.screenshot # "None")
                   <=> (confirm + diagnose = 1 /\ camera' = "ok")]_vars

C16_Witness ==
    /\ pc = "record" /\ driver = "open" /\ camera = "broken"
    /\ Len(detailed_results) = 2
    /\ detailed_results[1].success /\ detailed_results[1].screenshot # "None"
    /\ detailed_results[2].success /\ detailed_results[2].status = "BERHASIL"
    /\ detailed_results[2].screenshot = "None"
    /\ record_calls[2][3]
    /\ CaptureAttempts(structured_logs, "take_screenshot") = 2

----------------------------------------------------------------------------
\* Retry scenarios (SpecWrapper)

\* C17: when the first k invocations raise a retryable error, k <
\* max_attempts, and the next one returns, the call returns the value of
\* that invocation after exactly k + 1 invocations, and the retry wrapper
\* has logged exactly k WARNING records and no ERROR record.
C17_RetryThenSuccess ==
    (pc = "wrapper" /\ Len(trace) > 0 /\ trace[Len(trace)].cls = "none") =>
        LET k == Len(trace) - 1
        IN  /\ call.status = "returned"
            /\ Bool(call.result) = func_result
            /\ k < call.max_attempts
            /\ \A i \in 1 .. k : Catches(call.exceptions, trace[i].cls)
            /\ RetryLogCount(structured_logs, "WARNING") = k
            /\ RetryLogCount(structured_logs, "ERROR") = 0

C17_Witness ==
    /\ pc = "wrapper" /\ call.max_attempts = 3 /\ call.status = "returned"
    /\ Len(trace) = 3
    /\ trace[1].cls # "none" /\ trace[2].cls # "none" /\ trace[3].cls = "none"
    /\ call.result /\ func_result = "True"
    /\ RetryLogCount(structured_logs, "WARNING") = 2
    /\ Len(sleeps) = 2

\* C18: when every invocation raises a retryable error the call fails
\* after exactly max_attempts invocations and the retry wrapper has logged
\* exactly one ERROR record; a call that does not use up its attempts logs
\* no ERROR record of the retry wrapper at any time.
C18_OneErrorAtExhaustion ==
    pc = "wrapper" =>
        /\ (call.status # "running" /\ AllRetryable) =>
              /\ call.status = "raised"
              /\ Len(trace) = call.max_attempts
        /\ RetryLogCount(structured_logs, "ERROR")
              = IF call.status = "raised" /\ Exhausted THEN 1 ELSE 0

C18_Witness ==
    /\ pc = "wrapper" /\ call.max_attempts = 2 /\ call.status = "raised"
    /\ Len(trace) = 2 /\ Exhausted
    /\ RetryLogCount(structured_logs, "ERROR") = 1
    /\ RetryLogCount(structured_logs, "WARNING") = 2

----------------------------------------------------------------------------
\* Step order and exit codes (Spec)

\* The place of an invocation in the sequence of steps; the functions
\* measured inside the sensor validation belong to that step.
StepRank(func) ==
    CASE func = "initialize_webdriver" -> 1
      [] func = "open_dashboard" -> 2
      [] func \in {"validate_sensor_data_completeness",
                   "navigate_to_station_pages", "extract_sensor_data"} -> 3
      [] func = "validate_visual_elements" -> 4
      [] func = "test_download_feature" -> 5
      [] func = "generate_pdf_report" -> 6
      [] func = "save_structured_logs" -> 7
      [] OTHER -> 8

Invocations(func) == Cardinality({i \in 1 .. Len(trace) : trace[i].func = func})

\* C19: the invocations of a run follow the sequence driver init, page
\* load, sensor validation, visual elements, download feature, report
\* generation, teardown: no invocation of a step comes after one of a later
\* step, so the attempts of a retried step are consecutive and complete
\* before the next step starts; a retried step is invoked at most its
\* max_attempts times and every other step at most once.
C19_FixedSequence ==
    variant = "iot_testing" =>
        /\ \A i, j \in 1 .. Len(trace) :
              i < j => StepRank(trace[i].func) <= StepRank(trace[j].func)
        /\ Invocations("initialize_webdriver") <= INIT_MAX_ATTEMPTS
        /\ Invocations("open_dashboard") <= OPEN_MAX_ATTEMPTS
        /\ \A f \in {"validate_sensor_data_completeness", "validate_visual_elements",
                      "test_download_feature", "generate_pdf_report", "quit"} :
              Invocations(f) <= 1
        /\ (Invocations("open_dashboard") > 0) =>
              \E i \in 1 .. Len(trace) : trace[i] = Inv("initialize_webdriver", "none")

C19_Witness ==
    /\ variant = "iot_testing" /\ pc = "done" /\ exit = "returned"
    /\ Invocations("initialize_webdriver") = 3
    /\ Invocations("open_dashboard") = 2
    /\ Invocations("extract_sensor_data") = 1
    /\ Invocations("test_download_feature") = 1
    /\ reports = 1 /\ quits = 1
    /\ trace[Len(trace)].func = "quit"

\* C20 as claimed, for the entry points of both files: main returns 0
\* exactly when the verdict of the run is True, 1 when the verdict is False
\* or absent or an error escaped the run, and 130 when the run was
\* interrupted by the user.
C20_ExitCodes ==
    main_result # NoMain =>
        /\ main_result.kind = "return"
        /\ (main_result.code = 0) <=> (exit = "returned" /\ Verdict(results))
        /\ (exit = "interrupted") => main_result.code = 130
        /\ (exit = "raised" \/ (exit = "returned" /\ ~Verdict(results)))
              => main_result.code = 1

----------------------------------------------------------------------------
\* Properties of StructuredLogger (SpecLogger)

\* C21: a logging call never raises: whatever happens to the text stream
\* or to the structured stream, the call returns, and its LogRecord is in
\* memory.
C21_NeverRaises ==
    pc = "logger" =>
        /\ Len(structured_logs) = Len(log_calls)
        /\ \A i \in 1 .. Len(log_calls) : log_calls[i].outcome = "returned"

\* C22: the structured stream holds one entry per LogRecord, each of them
\* parsable and equal to the LogRecord of the same position in get_logs().
C22_OneEntryPerRecord ==
    (pc = "logger" /\ \A i \in 1 .. Len(log_calls) : log_calls[i].outcome = "returned") =>
        /\ Len(json_stream) = Len(structured_logs)
        /\ \A i \in 1 .. Len(json_stream) :
              ParseLine(json_stream[i]) = structured_logs[i]

----------------------------------------------------------------------------
\* Properties of the report and the session export (Spec)

\* C23: parsing the session export back gives the number of StepResults
\* and the overall verdict that the run holds in memory.
C23_RoundTrip ==
    (variant = "iot_testing" /\ session_export.written) =>
        /\ ParseExport(session_export).step_results = Len(detailed_results)
        /\ ParseExport(session_export).overall_verdict = results["overall_success"]

\* Position in trace of the invocation of func (0 when it was not invoked).
InvokedAt(func) ==
    IF \E i \in 1 .. Len(trace) : trace[i].func = func
    THEN CHOOSE i \in 1 .. Len(trace) : trace[i].func = func
    ELSE 0

\* C24: in a run that goes past the validation steps the report is rendered
\* before its own StepResult is recorded and the session export is written
\* after: the export ends with the result of 'Pembuatan Laporan PDF', and
\* what precedes it is row for row what the PDF lists.
C24_ReportThenExport ==
    (variant = "iot_testing" /\ session_export.written) =>
        LET exported == session_export.test_results
            n == Len(exported)
        IN  /\ 0 < InvokedAt("generate_pdf_report")
            /\ InvokedAt("generate_pdf_report") < InvokedAt("save_structured_logs")
            /\ n > 0
            /\ exported[n].test_name = "Pembuatan Laporan PDF"
            /\ exported[n].success = pdf_report.written
            /\ \A i \in 1 .. n - 1 : exported[i].test_name # "Pembuatan Laporan PDF"
            /\ pdf_report.written =>
                  /\ Len(pdf_report.rows) = n - 1
                  /\ \A i \in 1 .. n - 1 : pdf_report.rows[i] = PdfRow(exported[i])

C24_Witness ==
    /\ variant = "iot_testing"
    /\ session_export.written /\ pdf_report.written
    /\ Len(pdf_report.rows) = 2 + 1 + Len(SensorMapping) + 1 + 3
    /\ Len(session_export.test_results) = Len(pdf_report.rows) + 1

\* The keys of the three validation steps.
ValidationKeys == {"sensor_validation", "visual_elements", "download_feature"}

\* Both prerequisites succeeded and the three validation steps returned.
ValidationsDone ==
    /\ variant = "iot_testing"
    /\ results["webdriver_init"] = "True" /\ results["dashboard_open"] = "True"
    /\ \A k \in ValidationKeys : results[k] # "absent"

\* C25: with driver initialisation and page load successful, the verdict is
\* True iff at least one of the three validation steps returned True; it is
\* stored before the report step runs, and the report step, whatever its
\* outcome, leaves it as it is.
C25_VerdictBeforeReport ==
    [][ /\ (ValidationsDone' /\ results'["overall_success"] # "absent") =>
              (Verdict(results') <=> \E k \in ValidationKeys : results'[k] = "True")
        /\ pc' = "report" =>
              (ValidationsDone' /\ results'["overall_success"] # "absent")
        /\ pc = "report" => results' = results ]_vars

C25_Witness ==
    /\ variant = "iot_testing" /\ pc = "save"
    /\ ~pdf_report.written
    /\ Verdict(results)
    /\ Cardinality({k \in ValidationKeys : results[k] = "True"}) = 1

----------------------------------------------------------------------------
\* Properties of safe_find_element (SpecFind)

\* The calls of safe_find_element that have ended.
FindsEnded == Len(find_calls) - (IF call.status = "running" THEN 1 ELSE 0)

----------------------------------------------------------------------------
\* The log of the retry wrapper (SpecWrapper)

IsRetryRec(rec) == rec.src = "retry_on_failure"

\* The records of the retry wrapper, in the order logged.
RetryRecs == SelectSeq(structured_logs, IsRetryRec)

\* The invocations so far that raised a retryable error.
RetryableFailures ==
    Cardinality({i \in 1 .. Len(trace) : Catches(call.exceptions, trace[i].cls)})

\* C27: every failed retryable attempt is logged as a WARNING, the last one
\* too: a call that uses up its N attempts has logged N WARNING records and
\* then one ERROR record, which follows the N-th WARNING directly.
C27_WarningsThenError ==
    pc = "wrapper" =>
        /\ RetryLogCount(structured_logs, "WARNING") = RetryableFailures
        /\ (call.status = "raised" /\ Exhausted) =>
              LET n == call.max_attempts
              IN  /\ Len(RetryRecs) = n + 1
                  /\ \A i \in 1 .. n : RetryRecs[i].level = "WARNING"
                  /\ RetryRecs[n + 1].level = "ERROR"
                  /\ structured_logs[Len(structured_logs)] = RetryRecs[n + 1]
                  /\ structured_logs[Len(structured_logs) - 1] = RetryRecs[n]

C27_Witness ==
    /\ pc = "wrapper" /\ call.max_attempts = 3 /\ call.status = "raised"
    /\ Exhausted /\ call.timed
    /\ Len(RetryRecs) = 4
    /\ RetryRecs[3].level = "WARNING" /\ RetryRecs[4].level = "ERROR"

----------------------------------------------------------------------------
\* Order of the samples (Spec)

NestedFuncs == {"navigate_to_station_pages", "extract_sensor_data"}

\* Positions of the samples, and of the invocations, of the functions fs.
SamplesOf(fs) ==
    {i \in 1 .. Len(performance_data) : performance_data[i].function \in fs}

InvocationsOf(fs) == {i \in 1 .. Len(trace) : trace[i].func \in fs}

\* Every sample of an operation measured inside the sensor validation lies
\* before the sample of the sensor validation itself, although the sensor
\* validation was entered first.
NestedFirst ==
    /\ Cardinality(SamplesOf(NestedFuncs)) = Cardinality(InvocationsOf(NestedFuncs))
    /\ \A i \in SamplesOf(NestedFuncs),
          j \in SamplesOf({"validate_sensor_data_completeness"}) : i < j
    /\ \A i \in InvocationsOf(NestedFuncs),
          j \in InvocationsOf({"validate_sensor_data_completeness"}) : j < i

\* C28: samples are appended when the measured operation completes, so the
\* samples of navigate_to_station_pages and extract_sensor_data precede the
\* sample of the validate_sensor_data_completeness call that made them;
\* performance_data only grows, and what is in it stays as it is.
C28_CompletionOrder ==
    [][ /\ Len(performance_data') >= Len(performance_data)
        /\ SubSeq(performance_data', 1, Len(performance_data)) = performance_data
        /\ NestedFirst' ]_vars

C28_Witness ==
    /\ variant = "iot_testing" /\ pc = "visual"
    /\ Len(performance_data) = 5
    /\ performance_data[3].function = "navigate_to_station_pages"
    /\ performance_data[4].function = "extract_sensor_data"
    /\ performance_data[5].function = "validate_sensor_data_completeness"
    /\ trace[3].func = "validate_sensor_data_completeness"

----------------------------------------------------------------------------
\* Termination (SpecLive)

\* The invocations a run of iot_testing.py makes of each of its steps.
StepsBounded ==
    variant = "iot_testing" =>
        /\ Invocations("initialize_webdriver") <= INIT_MAX_ATTEMPTS
        /\ Invocations("open_dashboard") <= OPEN_MAX_ATTEMPTS
        /\ \A f \in {"validate_sensor_data_completeness", "validate_visual_elements",
                     "test_download_feature", "generate_pdf_report",
                     "save_structured_logs"} : Invocations(f) <= 1
        /\ quits <= 1

\* run_all_tests is over: the finally block has run, and the run returned
\* unless a keyboard interrupt arrived.
RunEnded ==
    /\ pc = "done" /\ exit # "running"
    /\ (\A i \in 1 .. Len(trace) : trace[i].cls # "KeyboardInterrupt") =>
          exit = "returned"
    /\ driver # "open"

\* C29: with every call coming back, run_all_tests ends on every path:
\* driver initialisation is invoked at most 3 times, page load at most
\* twice, each validation step and the report step at most once, and the
\* run gets through its teardown and returns.
C29_Terminates == []StepsBounded /\ <>RunEnded

C29_Witness ==
    /\ variant = "iot_testing" /\ pc = "done" /\ exit = "returned"
    /\ Invocations("initialize_webdriver") = 3
    /\ Invocations("open_dashboard") = 2
    /\ Invocations("generate_pdf_report") = 1
    /\ quits = 1

----------------------------------------------------------------------------
\* Sensor completeness (SpecSensor)

\* The sensors with a value once every accessed page is merged: those found
\* on some page, and all of the demonstration data when some page yielded
\* fewer than three.
MergedSensors ==
    {k \in MockKeys \cup UNION {accessed_pages[i] : i \in 1 .. Len(accessed_pages)} :
        \E i \in 1 .. Len(accessed_pages) :
            k \in accessed_pages[i]
            \/ (Cardinality(accessed_pages[i]) < 3 /\ k \in MockKeys)}

\* The mapped sensors that were found.
SensorsFound ==
    Cardinality({i \in 1 .. Len(SensorMapping) : SensorMapping[i][1] \in MergedSensors})

\* C30: with at least one station page accessible and no exception, the
\* sensor validation records the navigation result and then one result per
\* mapped sensor, nine of them in mapping order, each SUCCESS iff the sensor
\* has a value in the merged data, and returns True iff at least 6 of the 9
\* were found.
C30_SensorCompleteness ==
    (pc = "sensor_done" /\ accessed_pages # <<>>) =>
        /\ Len(SensorMapping) = 9
        /\ Len(detailed_results) = 1 + Len(SensorMapping)
        /\ detailed_results[1].test_name = "Navigasi Halaman Stasiun"
        /\ detailed_results[1].success
        /\ \A i \in 1 .. Len(SensorMapping) :
              /\ detailed_results[i + 1].test_name = SensorMapping[i][2]
              /\ detailed_results[i + 1].success <=> (SensorMapping[i][1] \in MergedSensors)
              /\ detailed_results[i + 1].status =
                    (IF SensorMapping[i][1] \in MergedSensors THEN "BERHASIL" ELSE "GAGAL")
        /\ (func_result = "True") <=> (SensorsFound >= 6)
        /\ func_result \in {"True", "False"}

C30_Witness ==
    /\ pc = "sensor_done" /\ Len(accessed_pages) = 2
    /\ accessed_pages[1] # accessed_pages[2]
    /\ ~(accessed_pages[1] \subseteq accessed_pages[2])
    /\ ~(accessed_pages[2] \subseteq accessed_pages[1])
    /\ SensorsFound = 5
    /\ func_result = "False"
    /\ Len(detailed_results) = 10

====
